---- MODULE Spec2Model ----
(***************************************************************************)
(* Transcript fetcher: the CLI script (src/scripts/transcript.py) and the  *)
(* HTTP handler (src/api/transcript.py).  Each has its own copy of the     *)
(* adapter fetch_transcript, which asks the transcript library for a       *)
(* video's transcripts, picks one by a fallback chain and maps its items   *)
(* to millisecond segments.                                                *)
(*                                                                         *)
(* The library is not part of the repository.  It is modelled as an        *)
(* environment: the variable lib fixes, for the one video requested, what  *)
(* each library call answers (a value or an exception).  The only          *)
(* assumptions made about it are read off the calls the code makes:        *)
(* find_transcript / find_generated_transcript answer with a transcript of *)
(* the listing in one of the requested languages (a generated one for the  *)
(* latter), and translate(lang) answers with a transcript in lang.         *)
(*                                                                         *)
(* Times are floats in seconds in the code.  Here a time is an integer     *)
(* number of ticks, TicksPerSecond ticks to the second, so that fractions  *)
(* of a millisecond exist and int(x * 1000) has something to truncate.     *)
(***************************************************************************)
EXTENDS Integers, Sequences, FiniteSets, TLC

VARIABLES lib, cli, http

vars == <<lib, cli, http>>

(***************************************************************************)
(* Bounds of the model.                                                    *)
(***************************************************************************)
MaxTranscripts == 2
MaxItems == 2

(***************************************************************************)
(* Values.                                                                 *)
(***************************************************************************)
TicksPerSecond == 4000

None == "None"

\* The languages both adapters ask for, in order.
PreferredLanguages == <<"en", "en-US", "en-GB">>

\* The language the adapters translate into.
TargetLanguage == "en"

SeqElems(s) == {s[i] : i \in 1..Len(s)}

\* All sequences over S of length at most n.
RECURSIVE SeqsUpTo(_, _)
SeqsUpTo(S, n) ==
    IF n = 0 THEN {<<>>}
    ELSE LET shorter == SeqsUpTo(S, n - 1)
         IN  shorter \cup {Append(s, x) : s \in {t \in shorter : Len(t) = n - 1}, x \in S}

\* Exceptions the library may raise from a call.
LibraryExceptions ==
    {"TranscriptsDisabled", "VideoUnavailable", "NoTranscriptFound", "RequestBlocked"}

\* str(e): the message of an exception.
Str(e) ==
    CASE e = "TranscriptsDisabled" -> "Subtitles are disabled for this video"
      [] e = "VideoUnavailable"    -> "The video is no longer available"
      [] e = "NoTranscriptFound"   -> "No transcripts were found for any of the requested language codes"
      [] e = "RequestBlocked"      -> "YouTube is blocking requests from your IP"
      [] e = "AttributeError"      -> "'FetchedTranscriptSnippet' object has no attribute 'get'"
      [] OTHER                     -> ""

(***************************************************************************)
(* Transcripts of a listing.  A transcript object is identified by its     *)
(* position in the listing (idx) and by whether it is a translation.       *)
(***************************************************************************)
TranscriptValues ==
    { [language_code |-> "en",    is_generated |-> FALSE, is_translatable |-> TRUE],
      [language_code |-> "en-US", is_generated |-> TRUE,  is_translatable |-> FALSE],
      [language_code |-> "de",    is_generated |-> FALSE, is_translatable |-> TRUE],
      [language_code |-> "de",    is_generated |-> TRUE,  is_translatable |-> FALSE] }

Listings == SeqsUpTo(TranscriptValues, MaxTranscripts)

NoTranscript ==
    [idx |-> 0, translated |-> FALSE, language_code |-> None,
     is_generated |-> FALSE, is_translatable |-> FALSE]

TranscriptAt(listing, i) ==
    [idx |-> i, translated |-> FALSE,
     language_code   |-> listing[i].language_code,
     is_generated    |-> listing[i].is_generated,
     is_translatable |-> listing[i].is_translatable]

\* t.translate(lang): a new transcript object in lang; whether the library
\* marks it generated is the library's answer (generated).
Translate(t, lang, generated) ==
    [idx |-> t.idx, translated |-> TRUE, language_code |-> lang,
     is_generated |-> generated, is_translatable |-> FALSE]

(***************************************************************************)
(* Fetched items.  An item is either a snippet object with attributes      *)
(* text, start, duration (attr = TRUE) or a dict (attr = FALSE) holding    *)
(* the keys in keys.  start and duration are in ticks.                     *)
(***************************************************************************)
AllKeys == {"text", "start", "duration"}

SnippetValues ==
    { [text |-> "a", start |-> 6000, duration |-> 9000],   \* 1.5 s, 2.25 s
      [text |-> "b", start |-> 3,    duration |-> 5] }     \* 0.75 ms, 1.25 ms

AttrItems ==
    { [attr |-> TRUE, keys |-> AllKeys, text |-> v.text, start |-> v.start,
       duration |-> v.duration] : v \in SnippetValues }

DictItems ==
    { [attr |-> FALSE, keys |-> AllKeys, text |-> v.text, start |-> v.start,
       duration |-> v.duration] : v \in SnippetValues }
    \cup { [attr |-> FALSE, keys |-> {"text"}, text |-> "c", start |-> 0, duration |-> 0] }

ItemLists == SeqsUpTo(AttrItems, MaxItems) \cup SeqsUpTo(DictItems, MaxItems)

(***************************************************************************)
(* Library behaviours.  A behaviour fixes the answer of every library call *)
(* an adapter can make for the video: an exception name, or "none" and a   *)
(* value.  Calls that no adapter can reach under the earlier answers keep  *)
(* their default, so that each behaviour is listed once.                   *)
(***************************************************************************)
NoException == "none"

\* What find_transcript(PreferredLanguages) may answer with.
FindAnswers(listing) ==
    {i \in 1..Len(listing) : listing[i].language_code \in SeqElems(PreferredLanguages)}

\* What find_generated_transcript(PreferredLanguages) may answer with.
FindGeneratedAnswers(listing) ==
    {i \in FindAnswers(listing) : listing[i].is_generated}

Chain(fe, fi, ge, gi, te, tg, y) ==
    [findExc |-> fe, findIdx |-> fi, genExc |-> ge, genIdx |-> gi,
     translateExc |-> te, translatedGenerated |-> tg, yields |-> y]

ChainBehaviours(listing) ==
    LET NTF == "NoTranscriptFound"
        NE  == NoException
        Others == LibraryExceptions \ {NTF}
    IN  {Chain(NE, i, NE, 0, NE, FALSE, TRUE) : i \in FindAnswers(listing)}
        \cup {Chain(e, 0, NE, 0, NE, FALSE, FALSE) : e \in Others}
        \cup {Chain(NTF, 0, NE, i, NE, FALSE, TRUE) : i \in FindGeneratedAnswers(listing)}
        \cup {Chain(NTF, 0, e, 0, NE, FALSE, FALSE) : e \in Others}
        \cup (IF \E i \in 1..Len(listing) : listing[i].is_translatable
              THEN {Chain(NTF, 0, NTF, 0, e, FALSE, FALSE) : e \in LibraryExceptions}
                   \cup {Chain(NTF, 0, NTF, 0, NE, g, TRUE) : g \in BOOLEAN}
              ELSE {Chain(NTF, 0, NTF, 0, NE, FALSE, FALSE)})

Fetch(fe, items, ie) == [fetchExc |-> fe, items |-> items, iterExc |-> ie]

\* fetch() raises, or answers with data whose iteration yields items and
\* then ends or raises.
FetchBehaviours ==
    {Fetch(e, <<>>, NoException) : e \in LibraryExceptions}
    \cup {Fetch(NoException, items, e) :
            items \in ItemLists, e \in LibraryExceptions \cup {NoException}}

NeverFetched == Fetch(NoException, <<>>, NoException)

Behaviour(le, listing, c, f) ==
    [listExc |-> le, listing |-> listing,
     findExc |-> c.findExc, findIdx |-> c.findIdx,
     genExc |-> c.genExc, genIdx |-> c.genIdx,
     translateExc |-> c.translateExc, translatedGenerated |-> c.translatedGenerated,
     fetchExc |-> f.fetchExc, items |-> f.items, iterExc |-> f.iterExc]

(***************************************************************************)
(* Results.  A result is the dict an adapter returns: keys is the set of   *)
(* keys the dict has, and a key that is absent holds a placeholder.        *)
(***************************************************************************)
Failure(error) ==
    [keys |-> {"success", "error", "segments"}, success |-> FALSE, error |-> error,
     segments |-> <<>>, language |-> None, isGenerated |-> FALSE]

\* As Success, with the language the adapter asked for in place of the
\* language of the transcript it got.
SuccessTargetLanguage(segments, transcript) ==
    [keys |-> {"success", "segments", "language", "isGenerated"}, success |-> TRUE,
     error |-> None, segments |-> segments,
     language |-> "en", isGenerated |-> transcript.is_generated]

Success(segments, transcript) ==
    [keys |-> {"success", "segments", "language", "isGenerated"}, success |-> TRUE,
     error |-> None, segments |-> segments,
     language |-> transcript.language_code, isGenerated |-> transcript.is_generated]

NoResult ==
    [keys |-> {}, success |-> FALSE, error |-> None, segments |-> <<>>,
     language |-> None, isGenerated |-> FALSE]

\* What an invocation of an adapter leaves behind: the dict it returned, the
\* value of its local transcript, the library calls it made, in order, and
\* the exception its outer try caught, if any.
Ret(result, transcript, calls, caught) ==
    [result |-> result, transcript |-> transcript, calls |-> calls, caught |-> caught]

NoRet == Ret(NoResult, NoTranscript, <<>>, NoException)

\* n calls of next() on the iterator of the fetched data.
NextCalls(n) == [i \in 1..n |-> "next"]

(***************************************************************************)
(* Python's int(num / den): truncation towards zero.                       *)
(***************************************************************************)
IntTrunc(num, den) ==
    IF num >= 0 THEN num \div den ELSE -((-num) \div den)

\* As ToMilliseconds, rounding to the nearest millisecond.
ToMillisecondsRounded(ticks) ==
    IntTrunc(2 * ticks * 1000 + TicksPerSecond, 2 * TicksPerSecond)

\* int(seconds * 1000) for a time of ticks ticks.
ToMilliseconds(ticks) == IntTrunc(ticks * 1000, TicksPerSecond)

\* item.get(key, default) on a dict.
Get(item, key, default) == IF key \in item.keys THEN item[key] ELSE default

\* As FirstTranslatable, without the break: the loop runs on and the last
\* translatable transcript wins.
RECURSIVE LastTranslatable(_, _)
LastTranslatable(listing, i) ==
    IF i > Len(listing) THEN 0
    ELSE LET later == LastTranslatable(listing, i + 1)
         IN  IF later # 0 THEN later
             ELSE IF listing[i].is_translatable THEN i ELSE 0

\* As FirstTranslatable, without the test of is_translatable.
FirstListed(listing, i) == IF i > Len(listing) THEN 0 ELSE i

\* for t in transcript_list: if t.is_translatable: ... break
\* The index of the transcript the loop stops at, from i on; 0 if it runs out.
RECURSIVE FirstTranslatable(_, _)
FirstTranslatable(listing, i) ==
    IF i > Len(listing) THEN 0
    ELSE IF listing[i].is_translatable THEN i
    ELSE FirstTranslatable(listing, i + 1)

(***************************************************************************)
(* The CLI's adapter: fetch_transcript of src/scripts/transcript.py.       *)
(***************************************************************************)
\* The fallback chain: the transcript chosen (NoTranscript for None), or the
\* exception that leaves the outer try.
fetch_transcript_select(l) ==
    IF l.listExc # NoException
    THEN Ret(NoResult, NoTranscript, <<"list">>, l.listExc)
    ELSE IF l.findExc = NoException
    THEN Ret(NoResult, TranscriptAt(l.listing, l.findIdx),
             <<"list", "find_transcript">>, NoException)
    ELSE IF l.findExc # "NoTranscriptFound"
    THEN Ret(NoResult, NoTranscript, <<"list", "find_transcript">>, l.findExc)
    ELSE IF l.genExc = NoException
    THEN Ret(NoResult, TranscriptAt(l.listing, l.genIdx),
             <<"list", "find_transcript", "find_generated_transcript">>, NoException)
    ELSE IF l.genExc # "NoTranscriptFound"
    THEN Ret(NoResult, NoTranscript,
             <<"list", "find_transcript", "find_generated_transcript">>, l.genExc)
    ELSE LET i == FirstTranslatable(l.listing, 1)
             calls == <<"list", "find_transcript", "find_generated_transcript">>
         IN  IF i = 0 THEN Ret(NoResult, NoTranscript, calls, NoException)
             ELSE IF l.translateExc # NoException
             THEN Ret(NoResult, NoTranscript, Append(calls, "translate"), l.translateExc)
             ELSE Ret(NoResult,
                      Translate(TranscriptAt(l.listing, i), TargetLanguage,
                                l.translatedGenerated),
                      Append(calls, "translate"), NoException)

\* One item to one segment.
fetch_transcript_segment(item) ==
    LET text     == IF item.attr THEN item.text ELSE Get(item, "text", "")
        start    == IF item.attr THEN item.start ELSE Get(item, "start", 0)
        duration == IF item.attr THEN item.duration ELSE Get(item, "duration", 0)
    IN  [text |-> text, offset |-> ToMilliseconds(start),
         duration |-> ToMilliseconds(duration)]

\* segments after the loop has consumed items.
fetch_transcript_segments(items) ==
    [i \in 1..Len(items) |-> fetch_transcript_segment(items[i])]

\* As fetch_transcript_except, with the catch-all clause first.
fetch_transcript_except_generic(e) == Failure(Str(e))

\* The except clauses of the outer try.
fetch_transcript_except(e) ==
    CASE e = "TranscriptsDisabled" -> Failure("Transcripts are disabled for this video")
      [] e = "VideoUnavailable"    -> Failure("Video is unavailable")
      [] OTHER                     -> Failure(Str(e))

\* As fetch_transcript, with the except clauses returning the segments mapped
\* so far.
fetch_transcript_partial(l) ==
    LET sel == fetch_transcript_select(l)
    IN  IF sel.caught # NoException
        THEN Ret(fetch_transcript_except(sel.caught), sel.transcript, sel.calls, sel.caught)
        ELSE IF sel.transcript = NoTranscript
        THEN Ret(Failure("No English transcript available"), NoTranscript, sel.calls,
                 NoException)
        ELSE IF l.fetchExc # NoException
        THEN Ret(fetch_transcript_except(l.fetchExc), sel.transcript,
                 Append(sel.calls, "fetch"), l.fetchExc)
        ELSE LET calls == Append(sel.calls, "fetch") \o NextCalls(Len(l.items) + 1)
             IN  IF l.iterExc # NoException
                 THEN Ret([fetch_transcript_except(l.iterExc) EXCEPT
                              !.segments = fetch_transcript_segments(l.items)],
                          sel.transcript, calls, l.iterExc)
                 ELSE Ret(Success(fetch_transcript_segments(l.items), sel.transcript),
                          sel.transcript, calls, NoException)

fetch_transcript(l) ==
    LET sel == fetch_transcript_select(l)
    IN  IF sel.caught # NoException
        THEN Ret(fetch_transcript_except(sel.caught), sel.transcript, sel.calls, sel.caught)
        ELSE IF sel.transcript = NoTranscript
        THEN Ret(Failure("No English transcript available"), NoTranscript, sel.calls,
                 NoException)
        ELSE IF l.fetchExc # NoException
        THEN Ret(fetch_transcript_except(l.fetchExc), sel.transcript,
                 Append(sel.calls, "fetch"), l.fetchExc)
        ELSE LET calls == Append(sel.calls, "fetch") \o NextCalls(Len(l.items) + 1)
             IN  IF l.iterExc # NoException
                 THEN Ret(fetch_transcript_except(l.iterExc), sel.transcript, calls,
                          l.iterExc)
                 ELSE Ret(Success(fetch_transcript_segments(l.items), sel.transcript),
                          sel.transcript, calls, NoException)

(***************************************************************************)
(* The HTTP handler's adapter: handler.fetch_transcript of                 *)
(* src/api/transcript.py.                                                  *)
(***************************************************************************)
handler_fetch_transcript_select(l) ==
    IF l.listExc # NoException
    THEN Ret(NoResult, NoTranscript, <<"list_transcripts">>, l.listExc)
    ELSE IF l.findExc = NoException
    THEN Ret(NoResult, TranscriptAt(l.listing, l.findIdx),
             <<"list_transcripts", "find_transcript">>, NoException)
    ELSE IF l.findExc # "NoTranscriptFound"
    THEN Ret(NoResult, NoTranscript, <<"list_transcripts", "find_transcript">>, l.findExc)
    ELSE IF l.genExc = NoException
    THEN Ret(NoResult, TranscriptAt(l.listing, l.genIdx),
             <<"list_transcripts", "find_transcript", "find_generated_transcript">>,
             NoException)
    ELSE IF l.genExc # "NoTranscriptFound"
    THEN Ret(NoResult, NoTranscript,
             <<"list_transcripts", "find_transcript", "find_generated_transcript">>,
             l.genExc)
    ELSE LET i == FirstTranslatable(l.listing, 1)
             calls == <<"list_transcripts", "find_transcript", "find_generated_transcript">>
         IN  IF i = 0 THEN Ret(NoResult, NoTranscript, calls, NoException)
             ELSE IF l.translateExc # NoException
             THEN Ret(NoResult, NoTranscript, Append(calls, "translate"), l.translateExc)
             ELSE Ret(NoResult,
                      Translate(TranscriptAt(l.listing, i), TargetLanguage,
                                l.translatedGenerated),
                      Append(calls, "translate"), NoException)

\* One item to one segment; the handler calls item.get whatever the item is.
handler_fetch_transcript_segment(item) ==
    [text     |-> Get(item, "text", ""),
     offset   |-> ToMilliseconds(Get(item, "start", 0)),
     duration |-> ToMilliseconds(Get(item, "duration", 0))]

\* The position of the first item that has no get method; 0 if there is none.
RECURSIVE FirstWithoutGet(_, _)
FirstWithoutGet(items, i) ==
    IF i > Len(items) THEN 0
    ELSE IF items[i].attr THEN i
    ELSE FirstWithoutGet(items, i + 1)

handler_fetch_transcript_segments(items) ==
    [i \in 1..Len(items) |-> handler_fetch_transcript_segment(items[i])]

handler_fetch_transcript_except(e) ==
    CASE e = "TranscriptsDisabled" -> Failure("Transcripts are disabled for this video")
      [] e = "VideoUnavailable"    -> Failure("Video is unavailable")
      [] OTHER                     -> Failure(Str(e))

handler_fetch_transcript(l) ==
    LET sel == handler_fetch_transcript_select(l)
    IN  IF sel.caught # NoException
        THEN Ret(handler_fetch_transcript_except(sel.caught), sel.transcript, sel.calls,
                 sel.caught)
        ELSE IF sel.transcript = NoTranscript
        THEN Ret(Failure("No English transcript available"), NoTranscript, sel.calls,
                 NoException)
        ELSE IF l.fetchExc # NoException
        THEN Ret(handler_fetch_transcript_except(l.fetchExc), sel.transcript,
                 Append(sel.calls, "fetch"), l.fetchExc)
        ELSE LET bad == FirstWithoutGet(l.items, 1)
             IN  IF bad # 0
                 THEN Ret(handler_fetch_transcript_except("AttributeError"), sel.transcript,
                          Append(sel.calls, "fetch") \o NextCalls(bad), "AttributeError")
                 ELSE LET calls == Append(sel.calls, "fetch") \o NextCalls(Len(l.items) + 1)
                      IN  IF l.iterExc # NoException
                          THEN Ret(handler_fetch_transcript_except(l.iterExc),
                                   sel.transcript, calls, l.iterExc)
                          ELSE Ret(Success(handler_fetch_transcript_segments(l.items),
                                           sel.transcript),
                                   sel.transcript, calls, NoException)

(***************************************************************************)
(* The CLI front end: main of src/scripts/transcript.py.                   *)
(***************************************************************************)
Argvs == {<<"transcript.py">>, <<"transcript.py", "v1">>}

UsageError == Failure("No video ID provided")

main_no_argument ==
    /\ cli.pc = "start"
    /\ \E argv \in Argvs :
          /\ Len(argv) < 2
          /\ cli' = [cli EXCEPT !.argv = argv, !.stdout = Append(@, UsageError),
                                !.pc = "exit_usage"]
    /\ UNCHANGED <<lib, http>>

main_exit_usage ==
    /\ cli.pc = "exit_usage"
    /\ cli' = [cli EXCEPT !.exit_code = 1, !.pc = "exited"]
    /\ UNCHANGED <<lib, http>>

main_fetch ==
    /\ cli.pc = "start"
    /\ \E argv \in Argvs :
          /\ ~(Len(argv) < 2)
          /\ cli' = [cli EXCEPT !.argv = argv, !.invoked = Append(@, argv[2]),
                                !.ret = fetch_transcript(lib), !.pc = "print"]
    /\ UNCHANGED <<lib, http>>

main_print ==
    /\ cli.pc = "print"
    /\ cli' = [cli EXCEPT !.stdout = Append(@, cli.ret.result), !.pc = "exit"]
    /\ UNCHANGED <<lib, http>>

\* As main_exit, exiting 0 whatever the result.
main_exit_0 ==
    /\ cli.pc = "exit"
    /\ cli' = [cli EXCEPT !.exit_code = 0, !.pc = "exited"]
    /\ UNCHANGED <<lib, http>>

main_exit ==
    /\ cli.pc = "exit"
    /\ cli' = [cli EXCEPT !.exit_code = IF cli.ret.result.success THEN 0 ELSE 1,
                          !.pc = "exited"]
    /\ UNCHANGED <<lib, http>>

(***************************************************************************)
(* The HTTP front end: handler.do_GET of src/api/transcript.py.  A query   *)
(* string is the sequence of its key=value pairs.                          *)
(***************************************************************************)
Param(k, v) == [key |-> k, value |-> v]

Queries ==
    { <<>>,
      <<Param("videoId", "")>>,
      <<Param("v", "v1")>>,
      <<Param("videoId", "v1")>>,
      <<Param("videoId", ""), Param("videoId", "v1")>> }

\* parse_qs(query).get('videoId', [None])[0]: parse_qs leaves blank values
\* out, and a key with no value left is not in its result.
QueryVideoId(query) ==
    LET values == SelectSeq(query, LAMBDA p : p.key = "videoId" /\ p.value # "")
    IN  IF values = <<>> THEN None ELSE values[1].value

\* not video_id
Falsy(video_id) == video_id = None \/ video_id = ""

Response(status, headers, body) == [status |-> status, headers |-> headers, body |-> body]

MissingVideoId ==
    [keys |-> {"success", "error"}, success |-> FALSE,
     error |-> "Missing videoId parameter", segments |-> <<>>, language |-> None,
     isGenerated |-> FALSE]

do_GET_missing ==
    /\ http.pc = "start"
    /\ \E query \in Queries :
          /\ Falsy(QueryVideoId(query))
          /\ http' = [http EXCEPT
                        !.query = query,
                        !.responses = Append(@,
                            Response(400, {<<"Content-type", "application/json">>},
                                     MissingVideoId)),
                        !.pc = "done"]
    /\ UNCHANGED <<lib, cli>>

do_GET_fetch ==
    /\ http.pc = "start"
    /\ \E query \in Queries :
          /\ ~Falsy(QueryVideoId(query))
          /\ http' = [http EXCEPT !.query = query,
                                  !.invoked = Append(@, QueryVideoId(query)),
                                  !.ret = handler_fetch_transcript(lib),
                                  !.pc = "respond"]
    /\ UNCHANGED <<lib, cli>>

\* As do_GET_respond, answering 200 whatever the result.
do_GET_respond_200 ==
    /\ http.pc = "respond"
    /\ http' = [http EXCEPT
                  !.responses = Append(@,
                      Response(200,
                               {<<"Content-type", "application/json">>,
                                <<"Access-Control-Allow-Origin", "*">>},
                               http.ret.result)),
                  !.pc = "done"]
    /\ UNCHANGED <<lib, cli>>

do_GET_respond ==
    /\ http.pc = "respond"
    /\ LET status_code == IF http.ret.result.success THEN 200 ELSE 500
       IN  http' = [http EXCEPT
                      !.responses = Append(@,
                          Response(status_code,
                                   {<<"Content-type", "application/json">>,
                                    <<"Access-Control-Allow-Origin", "*">>},
                                   http.ret.result)),
                      !.pc = "done"]
    /\ UNCHANGED <<lib, cli>>

(***************************************************************************)
(* The system: one video with its library behaviour, and the two front     *)
(* ends.  Under Spec a behaviour is one invocation, a run of the CLI or a  *)
(* GET request, whichever starts.  Under SpecBoth the same video is asked  *)
(* for through both front ends, in any interleaving.                       *)
(***************************************************************************)
Init ==
    /\ \/ \E e \in LibraryExceptions :
             lib = Behaviour(e, <<>>,
                             Chain(NoException, 0, NoException, 0, NoException, FALSE, FALSE),
                             NeverFetched)
       \/ \E listing \in Listings : \E c \in ChainBehaviours(listing) :
             \E f \in (IF c.yields THEN FetchBehaviours ELSE {NeverFetched}) :
                lib = Behaviour(NoException, listing, c, f)
    /\ cli = [pc |-> "start", argv |-> <<>>, ret |-> NoRet, invoked |-> <<>>,
              stdout |-> <<>>, exit_code |-> -1]
    /\ http = [pc |-> "start", query |-> <<>>, ret |-> NoRet, invoked |-> <<>>,
               responses |-> <<>>]

Next ==
    \/ http.pc = "start" /\ main_no_argument
    \/ http.pc = "start" /\ main_exit_usage
    \/ http.pc = "start" /\ main_fetch
    \/ http.pc = "start" /\ main_print
    \/ http.pc = "start" /\ main_exit
    \/ cli.pc = "start" /\ do_GET_missing
    \/ cli.pc = "start" /\ do_GET_fetch
    \/ cli.pc = "start" /\ do_GET_respond

Spec == Init /\ [][Next]_vars

NextBoth ==
    \/ main_no_argument
    \/ main_exit_usage
    \/ main_fetch
    \/ main_print
    \/ main_exit
    \/ do_GET_missing
    \/ do_GET_fetch
    \/ do_GET_respond

SpecBoth == Init /\ [][NextBoth]_vars

(***************************************************************************)
(* What the properties below read.                                         *)
(***************************************************************************)
\* The adapter invocations that have returned.
Returned == {p.ret : p \in {q \in {cli, http} : q.invoked # <<>>}}

Calls(r) == SeqElems(r.calls)

Count(calls, op) == Cardinality({i \in 1..Len(calls) : calls[i] = op})

HasTranslatable(listing) == \E i \in 1..Len(listing) : listing[i].is_translatable

\* C1: the transcript an adapter settles on is the one find_transcript
\* answers with; only if that reports NoTranscriptFound, the one
\* find_generated_transcript answers with; only if that reports
\* NoTranscriptFound too, the translation into 'en' of the first translatable
\* transcript of the listing; and no later step is attempted after a step
\* that produced a transcript.
C1_FallbackChain ==
    \A r \in Returned :
        lib.listExc = NoException =>
            /\ Len(r.calls) >= 2 /\ r.calls[2] = "find_transcript"
            /\ lib.findExc = NoException =>
                  /\ r.transcript.idx = lib.findIdx /\ ~r.transcript.translated
                  /\ "find_generated_transcript" \notin Calls(r)
                  /\ "translate" \notin Calls(r)
            /\ "find_generated_transcript" \in Calls(r) =>
                  /\ lib.findExc = "NoTranscriptFound"
                  /\ r.calls[3] = "find_generated_transcript"
                  /\ Count(r.calls, "find_generated_transcript") = 1
            /\ (lib.findExc = "NoTranscriptFound" /\ lib.genExc = NoException) =>
                  /\ r.transcript.idx = lib.genIdx /\ ~r.transcript.translated
                  /\ "find_generated_transcript" \in Calls(r)
                  /\ "translate" \notin Calls(r)
            /\ "translate" \in Calls(r) =>
                  /\ lib.findExc = "NoTranscriptFound" /\ lib.genExc = "NoTranscriptFound"
                  /\ r.calls[4] = "translate"
                  /\ Count(r.calls, "translate") = 1
            /\ (/\ lib.findExc = "NoTranscriptFound" /\ lib.genExc = "NoTranscriptFound"
                /\ HasTranslatable(lib.listing) /\ lib.translateExc = NoException) =>
                  /\ r.transcript.translated
                  /\ r.transcript.language_code = "en"
                  /\ r.transcript.idx \in 1..Len(lib.listing)
                  /\ lib.listing[r.transcript.idx].is_translatable
                  /\ \A j \in 1..(r.transcript.idx - 1) : ~lib.listing[j].is_translatable
                  /\ "translate" \in Calls(r)

\* The CLI's adapter has skipped a transcript that is not translatable,
\* translated the one after it and returned its segments.
C1_Witness ==
    /\ cli.invoked # <<>>
    /\ cli.ret.transcript.translated /\ cli.ret.transcript.idx = 2
    /\ ~lib.listing[1].is_translatable
    /\ cli.ret.result.success

\* C2: when find_transcript and find_generated_transcript both report
\* NoTranscriptFound and the listing (empty or not) has no translatable
\* transcript, the adapter returns success=false, the error "No English
\* transcript available" and no segments, and it never calls fetch.
C2_NoTranscriptAvailable ==
    \A r \in Returned :
        (/\ lib.listExc = NoException
         /\ lib.findExc = "NoTranscriptFound" /\ lib.genExc = "NoTranscriptFound"
         /\ ~HasTranslatable(lib.listing)) =>
            /\ r.result = [keys |-> {"success", "error", "segments"}, success |-> FALSE,
                           error |-> "No English transcript available",
                           segments |-> <<>>, language |-> None, isGenerated |-> FALSE]
            /\ "fetch" \notin Calls(r)
            /\ "translate" \notin Calls(r)

\* The HTTP adapter has run out of steps on a listing that is not empty.
C2_Witness ==
    /\ http.invoked # <<>>
    /\ lib.listExc = NoException
    /\ lib.findExc = "NoTranscriptFound" /\ lib.genExc = "NoTranscriptFound"
    /\ Len(lib.listing) = 2 /\ ~HasTranslatable(lib.listing)
    /\ ~http.ret.result.success

\* The library calls that raise an exception no inner handler takes, each
\* with the call that raises it.
LibraryRaises ==
    {s \in {<<"list", lib.listExc>>, <<"find_transcript", lib.findExc>>,
            <<"find_generated_transcript", lib.genExc>>,
            <<"translate", lib.translateExc>>, <<"fetch", lib.fetchExc>>,
            <<"next", lib.iterExc>>} :
        /\ s[2] # NoException
        /\ ~(/\ s[1] \in {"find_transcript", "find_generated_transcript"}
             /\ s[2] = "NoTranscriptFound")}

FailureDict(error) ==
    [keys |-> {"success", "error", "segments"}, success |-> FALSE, error |-> error,
     segments |-> <<>>, language |-> None, isGenerated |-> FALSE]

SameCall(made, site) ==
    made = site \/ (made = "list_transcripts" /\ site = "list")

\* C3: whichever library call raises, the adapter returns (it lets nothing
\* propagate) exactly the transcripts-disabled dict for TranscriptsDisabled,
\* the video-unavailable dict for VideoUnavailable, and a failure dict whose
\* error is the exception's own message for any other exception; and the
\* raising call is the last library call it makes.
C3_ExceptionMapping ==
    /\ \A r \in Returned :
          /\ r.caught = "TranscriptsDisabled" =>
                r.result = FailureDict("Transcripts are disabled for this video")
          /\ r.caught = "VideoUnavailable" =>
                r.result = FailureDict("Video is unavailable")
          /\ r.caught \notin {NoException, "TranscriptsDisabled", "VideoUnavailable"} =>
                r.result = FailureDict(Str(r.caught))
          /\ r.caught \in LibraryExceptions =>
                \E s \in LibraryRaises :
                    /\ s[2] = r.caught
                    /\ SameCall(r.calls[Len(r.calls)], s[1])
    /\ cli.invoked # <<>> =>
          \A s \in LibraryRaises : cli.ret.caught = s[2]
    /\ http.invoked # <<>> =>
          \A s \in LibraryRaises :
              (s[1] = "next" /\ \E i \in 1..Len(lib.items) : lib.items[i].attr)
              \/ http.ret.caught = s[2]

\* The CLI's adapter has mapped two items when the iteration over the
\* fetched data raises TranscriptsDisabled.
C3_Witness ==
    /\ cli.invoked # <<>>
    /\ lib.iterExc = "TranscriptsDisabled" /\ Len(lib.items) = 2
    /\ cli.ret.caught = "TranscriptsDisabled"
    /\ cli.ret.result.error = "Transcripts are disabled for this video"

\* ms is seconds * 1000 cut to an integer towards zero, for a time of ticks.
IsTruncation(ms, ticks) ==
    IF ticks >= 0
    THEN ms * TicksPerSecond <= ticks * 1000 /\ ticks * 1000 < (ms + 1) * TicksPerSecond
    ELSE (ms - 1) * TicksPerSecond < ticks * 1000 /\ ticks * 1000 <= ms * TicksPerSecond

\* C4: on success the segments are the fetched items, one for one and in
\* order: the item's text, and its start and duration times 1000 truncated
\* to whole milliseconds (1.5 s and 2.25 s give 1500 and 2250).
C4_SegmentMapping ==
    \A r \in Returned :
        r.result.success =>
            /\ Len(r.result.segments) = Len(lib.items)
            /\ \A i \in 1..Len(lib.items) :
                  LET item == lib.items[i]
                      seg  == r.result.segments[i]
                  IN  /\ "text" \in item.keys => seg.text = item.text
                      /\ "start" \in item.keys => IsTruncation(seg.offset, item.start)
                      /\ "duration" \in item.keys =>
                            IsTruncation(seg.duration, item.duration)
                      /\ (/\ item.keys = AllKeys
                          /\ 2 * item.start = 3 * TicksPerSecond
                          /\ 4 * item.duration = 9 * TicksPerSecond) =>
                            seg.offset = 1500 /\ seg.duration = 2250

\* The CLI's adapter has returned two segments, the first of an item whose
\* times are fractions of a millisecond, the second of the 1.5 s item.
C4_Witness ==
    /\ cli.invoked # <<>> /\ cli.ret.result.success
    /\ Len(lib.items) = 2
    /\ lib.items[1].text = "b" /\ lib.items[2].text = "a"
    /\ cli.ret.result.segments[2].offset = 1500

HasVideoId(query) ==
    \E i \in 1..Len(query) : query[i].key = "videoId" /\ query[i].value # ""

\* C6: do_GET sends one response per request.  Without a videoId (missing or
\* empty) it is a 400 with the missing-parameter body and the adapter is not
\* invoked; otherwise the adapter is invoked once, the body is its result and
\* the status is 200 exactly if the result has success=true and 500 exactly
\* if it has success=false.
C6_StatusCodes ==
    /\ Len(http.responses) <= 1
    /\ Len(http.invoked) <= 1
    /\ http.pc = "done" =>
          /\ Len(http.responses) = 1
          /\ LET response == http.responses[1]
             IN  IF HasVideoId(http.query)
                 THEN /\ Len(http.invoked) = 1
                      /\ response.body = http.ret.result
                      /\ response.status \in {200, 500}
                      /\ response.status = 200 <=> response.body.success
                      /\ response.status = 500 <=> ~response.body.success
                 ELSE /\ http.invoked = <<>>
                      /\ response.status = 400
                      /\ response.body.keys = {"success", "error"}
                      /\ response.body.success = FALSE
                      /\ response.body.error = "Missing videoId parameter"

\* A request with a videoId has been answered 500.
C6_Witness ==
    /\ http.pc = "done" /\ HasVideoId(http.query)
    /\ http.responses[1].status = 500

\* C7: every response sent, whatever its status, has content type
\* application/json and the header Access-Control-Allow-Origin: *.
C7_HeadersOnEveryResponse ==
    \A i \in 1..Len(http.responses) :
        /\ <<"Content-type", "application/json">> \in http.responses[i].headers
        /\ <<"Access-Control-Allow-Origin", "*">> \in http.responses[i].headers

\* C8: a run of the CLI prints one JSON result and exits after printing it
\* (a run that has started and not exited always has its next step to take).
\* With no argument it prints the no-video-ID error and exits 1 without
\* invoking the adapter; with a video ID it invokes the adapter once on that
\* ID, prints its result and exits 0 exactly if the result has success=true,
\* and 1 otherwise.
C8_CliContract ==
    /\ Len(cli.stdout) <= 1
    /\ Len(cli.invoked) <= 1
    /\ cli.exit_code # -1 <=> cli.pc = "exited"
    /\ cli.pc \notin {"start", "exited"} =>
          ENABLED (main_exit_usage \/ main_print \/ main_exit)
    /\ cli.pc = "exited" =>
          /\ Len(cli.stdout) = 1
          /\ IF Len(cli.argv) < 2
             THEN /\ cli.invoked = <<>>
                  /\ cli.stdout[1] = FailureDict("No video ID provided")
                  /\ cli.exit_code = 1
             ELSE /\ cli.invoked = <<cli.argv[2]>>
                  /\ cli.stdout[1] = cli.ret.result
                  /\ cli.exit_code \in {0, 1}
                  /\ cli.exit_code = 0 <=> cli.stdout[1].success

\* A run with a video ID has printed a failure and exited 1.
C8_Witness ==
    /\ cli.pc = "exited" /\ Len(cli.argv) = 2
    /\ ~cli.stdout[1].success /\ cli.exit_code = 1

\* C9: in every dict an adapter returns, segments is empty unless success is
\* true, error is present exactly on failure, and language and isGenerated
\* are present exactly on success.
C9_ResultShape ==
    \A r \in Returned :
        /\ r.result.segments # <<>> => r.result.success
        /\ ~r.result.success => r.result.segments = <<>>
        /\ "error" \in r.result.keys <=> ~r.result.success
        /\ "language" \in r.result.keys <=> r.result.success
        /\ "isGenerated" \in r.result.keys <=> r.result.success
        /\ {"success", "segments"} \subseteq r.result.keys

\* The HTTP adapter has failed part-way through the items: the iteration
\* raised after yielding a dict.
C9_Witness ==
    /\ http.invoked # <<>>
    /\ lib.iterExc = "RequestBlocked" /\ Len(lib.items) >= 1
    /\ http.ret.caught = "RequestBlocked"
    /\ http.ret.result.segments = <<>>

\* C10: for the same library behaviour the two adapters return the same
\* dict.
C10_AdaptersAgree ==
    (cli.invoked # <<>> /\ http.invoked # <<>>) => cli.ret.result = http.ret.result

====
